---- MODULE Spec2Model ----
(***************************************************************************)
(* EC Video Generator: the worker thread that runs one media job           *)
(* (src/ui/main_window.py, WorkerThread), the pipeline operations it       *)
(* calls (src/core/generator.py, VideoGenerator), the hardware-encoder     *)
(* probe (src/core/gpu_utils.py) and the image-edit capability boundary    *)
(* (src/core/ai_editor.py).                                                *)
(*                                                                         *)
(* Strings whose characters the code inspects (presets, paths, the text a  *)
(* probe prints) are tuples of one-character strings.  External tools and  *)
(* files are the environment: every outcome they can produce is a          *)
(* nondeterministic choice of the step that calls them.                    *)
(***************************************************************************)
EXTENDS Integers, Sequences, FiniteSets, TLC

\* ---------------------------------------------------------------- bounds
\* The largest number of frames an extraction yields.
MaxFrames == 3
\* The largest number of images in an upscale_images batch.
MaxImages == 2

\* The most frames of a short listing.
MaxListed == 10

\* ------------------------------------------------------- program constants
\* steps=10 of the per-frame edit and steps=20, edit_image's default.
VideoSteps == 10
ImageSteps == 20

\* ------------------------------------------------------------ characters
Upper == <<"A", "I", "M", "O", "P", "V">>
Lower == <<"a", "i", "m", "o", "p", "v">>

\* str.lower() on one character, then on a string.
lower_char(c) ==
  IF \E i \in DOMAIN Upper : Upper[i] = c
  THEN Lower[CHOOSE i \in DOMAIN Upper : Upper[i] = c]
  ELSE c

lower(s) == [i \in DOMAIN s |-> lower_char(s[i])]

\* str.endswith(suffix).
endswith(s, suffix) ==
  /\ Len(suffix) <= Len(s)
  /\ SubSeq(s, Len(s) - Len(suffix) + 1, Len(s)) = suffix

Whitespace == {" ", "\n", "\r", "\t"}

\* str.strip(): leading and trailing whitespace removed.
RECURSIVE lstrip(_)
lstrip(s) == IF s # <<>> /\ Head(s) \in Whitespace THEN lstrip(Tail(s)) ELSE s

RECURSIVE rstrip(_)
rstrip(s) ==
  IF s # <<>> /\ s[Len(s)] \in Whitespace
  THEN rstrip(SubSeq(s, 1, Len(s) - 1))
  ELSE s

strip(s) == rstrip(lstrip(s))

\* ------------------------------------------------------ encoder probing
\* get_best_encoder's candidate list, in its order.
encoders == <<"h264_nvenc", "h264_amf", "h264_qsv", "videotoolbox">>

\* What one trial invocation of ffmpeg can do: exit 0, exit non-zero
\* (CalledProcessError under check=True), or ffmpeg is not on the PATH
\* (FileNotFoundError).
TrialOutcomes == {"ok", "nonzero", "notfound"}

\* The for loop of get_best_encoder from candidate i on, given what each
\* candidate's trial would do: the encoder returned and the trials run.
RECURSIVE probe_from(_, _)
probe_from(i, trial) ==
  IF i > Len(encoders)
  THEN [encoder |-> "libx264", tried |-> <<>>]
  ELSE IF trial[i] = "ok"
       THEN [encoder |-> encoders[i],
             tried |-> <<[enc |-> encoders[i], outcome |-> trial[i]]>>]
       ELSE LET rest == probe_from(i + 1, trial)
            IN  [encoder |-> rest.encoder,
                 tried |-> <<[enc |-> encoders[i], outcome |-> trial[i]]>>
                           \o rest.tried]

\* A probe that keeps going after a success: the last working candidate wins.
RECURSIVE probe_last_from(_, _)
probe_last_from(i, trial) ==
  IF i > Len(encoders)
  THEN [encoder |-> "libx264", tried |-> <<>>]
  ELSE LET rest == probe_last_from(i + 1, trial)
       IN  [encoder |-> IF rest.encoder = "libx264" /\ trial[i] = "ok"
                        THEN encoders[i] ELSE rest.encoder,
            tried |-> <<[enc |-> encoders[i], outcome |-> trial[i]]>>
                      \o rest.tried]

get_best_encoder_last(trial) == probe_last_from(1, trial)

get_best_encoder(trial) == probe_from(1, trial)

\* ---------------------------------------------------- resolution policy
P720 == <<"7", "2", "0", "p">>
P1080 == <<"1", "0", "8", "0", "p">>
P2k == <<"2", "k">>
P4k == <<"4", "k">>

\* The keys of _get_resolution's table.
KnownPresets == {P4k, P2k, P1080, P720}

\* A function's result: a value, or the exception it raised.
Ret(v) == [exc |-> "none", val |-> v]
Raise(e) == [exc |-> e, val |-> <<>>]

\* A lookup by subscript (resolutions[preset]): KeyError on an unknown key.
_get_resolution_strict(preset) ==
  CASE preset = P4k -> Ret(<<3840, 2160>>)
    [] preset = P2k -> Ret(<<2560, 1440>>)
    [] preset = P1080 -> Ret(<<1920, 1080>>)
    [] preset = P720 -> Ret(<<1280, 720>>)
    [] OTHER -> Raise("KeyError")

\* resolutions.get(preset, (1920, 1080)).
_get_resolution(preset) ==
  CASE preset = P4k -> Ret(<<3840, 2160>>)
    [] preset = P2k -> Ret(<<2560, 1440>>)
    [] preset = P1080 -> Ret(<<1920, 1080>>)
    [] preset = P720 -> Ret(<<1280, 720>>)
    [] OTHER -> Ret(<<1920, 1080>>)

\* generate_video's orientation rule: is_wide = width >= height, and the
\* preset's pair swapped when the input is not wide.
is_wide(size) == size[1] >= size[2]

oriented_noswap(res, wide) == res

oriented(res, wide) == IF ~wide THEN <<res[2], res[1]>> ELSE res

\* ------------------------------------------------------- frame file names
\* The pad width of ffmpeg's output pattern frame_%04d.png.
PadWidth == 4

DigitChars == <<"0", "1", "2", "3", "4", "5", "6", "7", "8", "9">>

\* The decimal digits of n, as printf's %d writes them.
RECURSIVE Digits(_)
Digits(n) ==
  IF n < 10
  THEN <<DigitChars[n + 1]>>
  ELSE Append(Digits(n \div 10), DigitChars[(n % 10) + 1])

\* printf's %0wd: zeros in front up to the width w, never a digit cut off.
RECURSIVE ZeroPad(_, _)
ZeroPad(ds, w) == IF Len(ds) >= w THEN ds ELSE ZeroPad(<<"0">> \o ds, w)

\* The file ffmpeg writes for frame k under the pattern frame_%04d.png.
frame_name(k) ==
  <<"f", "r", "a", "m", "e", "_">> \o ZeroPad(Digits(k), PadWidth)
    \o <<".", "p", "n", "g">>

\* The code point of a character of a frame file name.
ord(c) ==
  CASE c = "." -> 46
    [] c = "_" -> 95
    [] c \in {DigitChars[d] : d \in 1..10} ->
         47 + (CHOOSE d \in 1..10 : DigitChars[d] = c)
    [] c = "a" -> 97 [] c = "e" -> 101 [] c = "f" -> 102 [] c = "g" -> 103
    [] c = "m" -> 109 [] c = "n" -> 110 [] c = "p" -> 112 [] c = "r" -> 114

\* Python's str <: by the first position where the two differ, and a proper
\* prefix before the longer string.
RECURSIVE LexLessFrom(_, _, _)
LexLessFrom(a, b, i) ==
  IF i > Len(a) \/ i > Len(b)
  THEN Len(a) < Len(b)
  ELSE IF a[i] = b[i]
       THEN LexLessFrom(a, b, i + 1)
       ELSE ord(a[i]) < ord(b[i])

LexLess(a, b) == LexLessFrom(a, b, 1)

\* Where sorted() puts the file of frame k among the files of frames 1..n:
\* after every name that is less than it.
sorted_index(k, n) ==
  1 + Cardinality({i \in 1..n : LexLess(frame_name(i), frame_name(k))})

\* extract_frames' return value after ffmpeg wrote n frames: the frame
\* numbers in the order of the sorted list of their file names.
sorted_frames(n) ==
  [p \in 1..n |-> CHOOSE k \in 1..n : sorted_index(k, n) = p]

\* ----------------------------------------------------------- job inputs
\* An image file as the pipeline sees it: whether the path exists, whether
\* PIL can decode it, and its pixel size.
Landscape == [exists |-> TRUE, ok |-> TRUE, size |-> <<1920, 1080>>]
Portrait == [exists |-> TRUE, ok |-> TRUE, size |-> <<1080, 1920>>]
Square == [exists |-> TRUE, ok |-> TRUE, size |-> <<800, 800>>]
Corrupt == [exists |-> TRUE, ok |-> FALSE, size |-> <<0, 0>>]
Missing == [exists |-> FALSE, ok |-> FALSE, size |-> <<0, 0>>]

\* Preset strings a caller can pass: the four keys, an unrecognized name,
\* and an unrecognized name that holds a path separator.
PresetInputs == KnownPresets \union {<<"8", "k">>, <<"h", "d", "/", "x">>}

\* Input paths of an AI edit, by their endings.
AiPaths ==
  { <<"a", ".", "m", "p", "4">>, <<"a", ".", "M", "O", "V">>,
    <<"a", ".", "a", "v", "i">>, <<"a", ".", "p", "n", "g">>,
    <<"a", "m", "p", "4">> }

Modes == {"ai_edit", "create_video", "upscale_video", "upscale_images",
          "concat_images"}

\* A mode string that run() has no branch for.
OtherMode == "animate"

SeqsUpTo(S, n) == UNION {[1..k -> S] : k \in 0..n}

NoKwargs ==
  [img |-> Missing, audio |-> FALSE, video |-> Missing, images |-> <<>>,
   quality |-> <<>>, input |-> <<>>, srcAudio |-> FALSE, output |-> <<>>]

\* What a save dialog returns: the chosen path, or '' when it is cancelled.
Mp4Path == <<"o", "u", "t", ".", "m", "p", "4">>
PngPath == <<"o", "u", "t", ".", "p", "n", "g">>

_save(kind) == {<<>>, IF kind = "Video (*.mp4)" THEN Mp4Path ELSE PngPath}

\* MainWindow.run_ai_edit's own is_video, which knows .mp4 and .avi only.
ui_is_video(path) ==
  \E e \in { <<".", "m", "p", "4">>, <<".", "a", "v", "i">> } :
    endswith(lower(path), e)

\* The file name MainWindow.run_ai_edit offers in its save dialog, which the
\* user accepts.
default_name(path) ==
  IF ui_is_video(path)
  THEN <<"a", "i", "_", "r", "e", "s", "u", "l", "t", ".", "m", "p", "4">>
  ELSE <<"a", "i", "_", "r", "e", "s", "u", "l", "t", ".", "p", "n", "g">>

\* The keyword arguments MainWindow's runners hand to start_worker, with the
\* properties of the files they name.
JobInputs(m) ==
  CASE m = "create_video" ->
         {[NoKwargs EXCEPT !.img = i, !.audio = a, !.quality = q, !.output = f] :
            i \in {Landscape, Portrait, Square, Missing},
            a \in BOOLEAN, q \in PresetInputs, f \in _save("Video (*.mp4)")}
    [] m = "upscale_video" ->
         {[NoKwargs EXCEPT !.video = v, !.quality = q, !.output = f] :
            v \in {Landscape, Portrait, Missing}, q \in PresetInputs,
            f \in _save("Video (*.mp4)")}
    [] m = "upscale_images" ->
         {[NoKwargs EXCEPT !.images = s, !.quality = q] :
            s \in SeqsUpTo({Landscape, Portrait, Corrupt}, MaxImages),
            q \in PresetInputs}
    [] m = "concat_images" ->
         {[NoKwargs EXCEPT !.output = f] : f \in _save("Image (*.png)")}
    [] m = "ai_edit" ->
         {[NoKwargs EXCEPT !.input = p, !.srcAudio = a,
                           !.output = default_name(p)] :
            p \in AiPaths, a \in BOOLEAN}

\* ---------------------------------------------------------------- events
\* What the worker's three signals carry.
Log(t) == [k |-> "log", n |-> 0, ok |-> FALSE, text |-> t]
Progress(n) == [k |-> "progress", n |-> n, ok |-> FALSE, text |-> ""]
Finished(ok, msg) == [k |-> "finished", n |-> 0, ok |-> ok, text |-> msg]

\* run()'s last two statements on the path where nothing raised.
run_success == <<Log("Task Finished Successfully"),
                 Finished(TRUE, "Task completed successfully!")>>

\* A handler that reports the failure and then still reports success.
run_except_then_success(e) ==
  <<Log("ERROR"), Finished(FALSE, "Error"),
    Finished(TRUE, "Task completed successfully!")>>

\* run()'s two except clauses: ImportError, then every other Exception.
run_except(e) ==
  IF e = "ImportError"
  THEN <<Log("CRITICAL ERROR: Missing Libraries"),
         Finished(FALSE, "Missing AI Libraries")>>
  ELSE <<Log("ERROR"), Finished(FALSE, "Error")>>

\* ------------------------------------------------------- external tools
\* What a spawned ffmpeg can do for _run_ffmpeg: exit 0, exit non-zero, or
\* not be found (Popen raises before any process exists).
ToolOutcomes == {"ok", "nonzero", "notfound"}

\* A _run_ffmpeg that does not look at the return code.
_run_ffmpeg_unchecked(outcome) ==
  CASE outcome = "ok" -> "none"
    [] outcome = "nonzero" -> "none"
    [] outcome = "notfound" -> "ToolNotFound"

\* _run_ffmpeg: the exception it raises, "none" when it returns.
_run_ffmpeg(outcome) ==
  CASE outcome = "ok" -> "none"
    [] outcome = "nonzero" -> "FFmpegError"
    [] outcome = "notfound" -> "ToolNotFound"

\* A process that was spawned: the tool, the operation that spawned it and
\* the parts of the argument vector the model follows.
Proc(tool, op, inputs, vcodec, size, maps, acodec) ==
  [tool |-> tool, op |-> op, inputs |-> inputs, vcodec |-> vcodec,
   size |-> size, maps |-> maps, acodec |-> acodec]

\* The processes a call adds to those spawned: none when the tool is not found.
Spawn(outcome, proc) == IF outcome = "notfound" THEN <<>> ELSE <<proc>>

\* ----------------------------------------------------------------- state
VARIABLES
  busy,      \* set_ui_busy: the tabs and the AI run button are disabled
  pc,        \* where the worker is: "idle" when there is none
  mode,      \* WorkerThread.mode
  kwargs,    \* WorkerThread.kwargs, with the properties of the files named
  encoder,   \* VideoGenerator.encoder
  probeLog,  \* the trial invocations the constructor's probe ran
  events,    \* the signals this job has emitted, in order
  spawned,   \* the processes this job's operation has spawned, in order
  err,       \* the exception that ended the job, "none" if none did
  tempDir,   \* whether the directory temp_frames_ai exists
  aiLoaded,  \* the module global AIImageEditor is not None
  frames,    \* the frame numbers extract_frames returned
  idx,       \* the loop index i of the worker's current for loop
  edits,     \* the calls of edit_image made so far
  outputs,   \* the images upscale_image_batch has saved
  target,    \* the target geometry of the video operation, <<>> if none
  probe,     \* what has_audio_stream's ffprobe did, and what the call returned or raised
  output,    \* the result file of the job, if the job has written it
  donor,     \* the audio_source_video passed to frames_to_video, <<>> if none
  calls,     \* the tool invocations and capability calls made, with their outcome
  listing    \* a directory listing handed to extract_frames' sorted(), and where a frame came out

vars == <<busy, pc, mode, kwargs, encoder, probeLog, events, spawned, err,
          tempDir, aiLoaded, frames, idx, edits, outputs, target, probe,
          output, donor, calls, listing>>

NoProbe ==
  [kind |-> "none", rc |-> 0, out |-> <<>>, result |-> FALSE, exc |-> "none"]
NoOutput == [written |-> FALSE, audio |-> FALSE]
NoListing == [n |-> 0, k |-> 0, at |-> 0]

\* The state after MainWindow's construction: no worker, widgets enabled.
Init ==
  /\ busy = FALSE
  /\ pc = "idle"
  /\ mode = "none"
  /\ kwargs = NoKwargs
  /\ encoder = "none"
  /\ probeLog = <<>>
  /\ events = <<>>
  /\ spawned = <<>>
  /\ err = "none"
  /\ tempDir = FALSE
  /\ aiLoaded = FALSE
  /\ frames = <<>>
  /\ idx = 0
  /\ edits = <<>>
  /\ outputs = <<>>
  /\ target = <<>>
  /\ probe = NoProbe
  /\ output = NoOutput
  /\ donor = <<>>
  /\ calls = <<>>
  /\ listing = NoListing

\* The worker's and the job's variables as a new WorkerThread has them.
FreshJob ==
  /\ events' = <<>>
  /\ spawned' = <<>>
  /\ err' = "none"
  /\ frames' = <<>>
  /\ idx' = 0
  /\ edits' = <<>>
  /\ outputs' = <<>>
  /\ target' = <<>>
  /\ probe' = NoProbe
  /\ output' = NoOutput
  /\ donor' = <<>>
  /\ calls' = <<>>

\* The job ends by an exception e, after emitting pre: run()'s handlers.
Throw(e, pre) ==
  /\ pc' = "done"
  /\ err' = e
  /\ events' = events \o pre \o run_except(e)

\* The job's branch returned, after emitting pre: run()'s success tail.
Complete(pre) ==
  /\ pc' = "done"
  /\ err' = err
  /\ events' = events \o pre \o run_success

\* ------------------------------------------------------------- UI thread
\* A set_ui_busy that leaves the widgets as they are.
set_ui_busy_kept(b) == busy

\* set_ui_busy(busy): tabs.setDisabled(busy), btn_run_ai.setDisabled(busy).
\* The value is the disabled state the widgets are left in.
set_ui_busy(b) == b

\* A start_worker without the early return.
start_worker_unguarded(m, kw, trial) ==
  /\ ~busy
  /\ busy' = set_ui_busy(TRUE)
  /\ pc' = "started"
  /\ mode' = m
  /\ kwargs' = kw
  /\ encoder' = get_best_encoder(trial).encoder
  /\ probeLog' = get_best_encoder(trial).tried
  /\ FreshJob
  /\ UNCHANGED <<tempDir, aiLoaded, listing>>

\* MainWindow.start_worker, reached from a run button, which only enabled
\* tabs offer: returns early without an output path; else marks the UI
\* busy, constructs the worker (whose VideoGenerator probes the encoders)
\* and starts its thread.
start_worker(m, kw, trial) ==
  /\ ~busy
  /\ IF m # "upscale_images" /\ kw.output = <<>>
     THEN UNCHANGED vars
     ELSE /\ busy' = set_ui_busy(TRUE)
          /\ pc' = "started"
          /\ mode' = m
          /\ kwargs' = kw
          /\ encoder' = get_best_encoder(trial).encoder
          /\ probeLog' = get_best_encoder(trial).tried
          /\ FreshJob
          /\ UNCHANGED <<tempDir, aiLoaded, listing>>

\* MainWindow.on_finished, the slot of the worker's finished signal.
on_finished ==
  /\ pc = "done"
  /\ busy' = set_ui_busy(FALSE)
  /\ pc' = "idle"
  /\ mode' = "none"
  /\ kwargs' = NoKwargs
  /\ encoder' = "none"
  /\ probeLog' = <<>>
  /\ FreshJob
  /\ UNCHANGED <<tempDir, aiLoaded, listing>>

\* ------------------------------------------------------------ commands
\* The argument vectors the operations build.
generate_video_cmd(enc, tgt) ==
  Proc("ffmpeg", "generate_video", <<"image_path", "audio_path">>, enc, tgt,
       <<>>, "aac")

upscale_video_cmd(enc, tgt) ==
  Proc("ffmpeg", "upscale_video", <<"input_video">>, enc, tgt, <<>>, "copy")

extract_frames_cmd ==
  Proc("ffmpeg", "extract_frames", <<"video_path">>, "", <<>>, <<>>, "")

get_audio_duration_cmd ==
  Proc("ffprobe", "get_audio_duration", <<"audio_path">>, "", <<>>, <<>>, "")

has_audio_stream_cmd ==
  Proc("ffprobe", "has_audio_stream", <<"audio_source_video">>, "", <<>>,
       <<>>, "")

\* A command that maps the donor's audio in whatever the probe said.
frames_to_video_cmd_always(has_audio, enc) ==
  Proc("ffmpeg", "frames_to_video", <<"frame_%04d.png", "audio_source_video">>,
       enc, <<>>, <<"0:v", "1:a">>, "copy")

\* frames_to_video's command: the frame sequence, and only if has_audio the
\* donor as a second input with -map 0:v -map 1:a -c:a copy.
frames_to_video_cmd(has_audio, enc) ==
  IF has_audio
  THEN Proc("ffmpeg", "frames_to_video",
            <<"frame_%04d.png", "audio_source_video">>, enc, <<>>,
            <<"0:v", "1:a">>, "copy")
  ELSE Proc("ffmpeg", "frames_to_video", <<"frame_%04d.png">>, enc, <<>>,
            <<>>, "")

\* Whether a command maps an audio stream into its output.
MapsAudio(cmd) == \E j \in DOMAIN cmd.maps : cmd.maps[j] = "1:a"

\* ------------------------------------------------------ has_audio_stream
\* What the ffprobe of has_audio_stream can do on a video that has, or has
\* not, an audio stream: not be found, print bytes that do not decode, exit
\* non-zero having printed nothing, or exit 0 having printed one codec name
\* per audio stream (nothing, or a bare line end, when there is none).
AudioProbeOutcomes(srcAudio) ==
  { [kind |-> "notfound", rc |-> 0, out |-> <<>>],
    [kind |-> "undecodable", rc |-> 0, out |-> <<>>],
    [kind |-> "completed", rc |-> 1, out |-> <<>>] }
  \union
  ( IF srcAudio
    THEN {[kind |-> "completed", rc |-> 0, out |-> <<"a", "a", "c", "\n">>]}
    ELSE {[kind |-> "completed", rc |-> 0, out |-> <<>>],
          [kind |-> "completed", rc |-> 0, out |-> <<"\n">>]} )

\* What the probe did (o) together with what the call made of it (r).
Probed(o, r) ==
  [kind |-> o.kind, rc |-> o.rc, out |-> o.out,
   result |-> IF r.exc = "none" THEN r.val ELSE FALSE, exc |-> r.exc]

\* has_audio_stream without its try/except and without strip().
has_audio_stream_bare(o) ==
  CASE o.kind = "notfound" -> Raise("ToolNotFound")
    [] o.kind = "undecodable" -> Raise("UnicodeDecodeError")
    [] OTHER -> Ret(Len(o.out) > 0)

\* has_audio_stream: subprocess.run raises when ffprobe is not found or its
\* output does not decode, and the bare except returns False; otherwise
\* len(result.stdout.strip()) > 0.
has_audio_stream(o) ==
  IF o.kind \in {"notfound", "undecodable"}
  THEN Ret(FALSE)
  ELSE Ret(Len(strip(o.out)) > 0)

\* ---------------------------------------------------- pipeline operations
\* generate_video up to its first subprocess: the existence check, the
\* image's size, the target geometry.
generate_video_prepare(kw) ==
  IF ~kw.img.exists \/ ~kw.audio
  THEN Raise("InputNotFound")
  ELSE IF ~kw.img.ok
       THEN Raise("ImageError")
       ELSE LET r == _get_resolution(kw.quality)
            IN  IF r.exc # "none"
                THEN r
                ELSE Ret(oriented(r.val, is_wide(kw.img.size)))

\* upscale_video up to its subprocess: the target geometry.
upscale_video_prepare(kw) == _get_resolution(kw.quality)

\* The file name upscale_image_batch saves under, f"{name}_{preset}{ext}".
save_name(name, preset, ext) == name \o <<"_">> \o preset \o ext

\* Whether a file name reaches into a subdirectory of the output folder.
HasSeparator(name) == \E j \in DOMAIN name : name[j] \in {"/", "\\"}

\* upscale_image_batch on a one-image list: the lookup, Image.open and
\* thumbnail to the preset's box, and save. subdir: whether the directory a
\* separator in the file name points into exists.
upscale_image_batch(image, preset, subdir) ==
  LET r == _get_resolution(preset)
  IN  IF r.exc # "none"
      THEN r
      ELSE IF ~image.exists \/ ~image.ok
           THEN Raise("ImageError")
           ELSE IF HasSeparator(save_name(<<"i">>, preset, <<".", "p", "n", "g">>))
                   /\ ~subdir
                THEN Raise("SavePathError")
                ELSE Ret(r.val)

\* int(((i + 1) / total) * 100), for the totals within the bounds.
progress_of(i, total) == (100 * (i + 1)) \div total

VideoExts == { <<".", "m", "p", "4">>, <<".", "a", "v", "i">>,
               <<".", "m", "o", "v">> }

\* An is_video that compares the ending as it is written.
is_video_as_written(path) == \E e \in VideoExts : endswith(path, e)

\* run_ai_edit's is_video: input_path.lower().endswith(('.mp4','.avi','.mov')).
is_video(path) == \E e \in VideoExts : endswith(lower(path), e)

\* One invocation of an external tool or of the AI capability, as it ended.
Call(tool, op, failed) == [tool |-> tool, op |-> op, failed |-> failed]

\* A call that hands frames_to_video the output file as the audio donor.
frames_to_video_args_output(kw) ==
  [frames_folder |-> "temp_frames_ai",
   audio_source_video |-> kw.output,
   output_path |-> kw.output]

\* run_ai_edit's call frames_to_video(temp_dir, input_path, output_path).
frames_to_video_args(kw) ==
  [frames_folder |-> "temp_frames_ai",
   audio_source_video |-> kw.input,
   output_path |-> kw.output]

\* ---------------------------------------------------------- worker thread
\* Each action is the worker's code from one blocking call (a subprocess, a
\* capability call, a file read or write) to the next.
JobVarsKept == <<busy, mode, kwargs, encoder, probeLog, tempDir, aiLoaded,
                 donor, listing>>

\* run() in mode create_video, up to get_audio_duration's ffprobe.
run_create_video ==
  /\ pc = "started" /\ mode = "create_video"
  /\ LET pre == <<Log("Starting Task"), Log("Generating video"), Progress(10)>>
         r == generate_video_prepare(kwargs)
     IN  IF r.exc # "none"
         THEN Throw(r.exc, pre) /\ target' = target
         ELSE /\ pc' = "audio_duration"
              /\ events' = events \o pre
              /\ err' = err
              /\ target' = r.val
  /\ UNCHANGED <<JobVarsKept, spawned, frames, idx, edits, outputs, probe, output, calls>>

\* get_audio_duration: ffprobe prints the duration, or something float()
\* rejects, or is not found.
get_audio_duration(o) ==
  /\ pc = "audio_duration"
  /\ calls' = Append(calls, Call("ffprobe", "get_audio_duration", o # "ok"))
  /\ spawned' = spawned \o Spawn(o, get_audio_duration_cmd)
  /\ CASE o = "ok" -> /\ pc' = "generate_ffmpeg"
                      /\ UNCHANGED <<events, err>>
       [] o = "nonzero" -> Throw("ValueError", <<>>)
       [] o = "notfound" -> Throw("ToolNotFound", <<>>)
  /\ UNCHANGED <<JobVarsKept, frames, idx, edits, outputs, target,
                 probe, output>>

\* generate_video's ffmpeg, and run()'s tail for create_video.
generate_video_ffmpeg(o) ==
  /\ pc = "generate_ffmpeg"
  /\ calls' = Append(calls, Call("ffmpeg", "generate_video", o # "ok"))
  /\ spawned' = spawned \o Spawn(o, generate_video_cmd(encoder, target))
  /\ IF _run_ffmpeg(o) = "none"
     THEN /\ Complete(<<Progress(100)>>)
          /\ output' = [written |-> TRUE, audio |-> TRUE]
     ELSE /\ Throw(_run_ffmpeg(o), <<>>)
          /\ output' = output
  /\ UNCHANGED <<JobVarsKept, frames, idx, edits, outputs, target,
                 probe>>

\* run() in mode upscale_video, up to upscale_video's ffmpeg.
run_upscale_video ==
  /\ pc = "started" /\ mode = "upscale_video"
  /\ LET pre == <<Log("Starting Task"), Log("Upscaling video"), Progress(10)>>
         r == upscale_video_prepare(kwargs)
     IN  IF r.exc # "none"
         THEN Throw(r.exc, pre) /\ target' = target
         ELSE /\ pc' = "upscale_ffmpeg"
              /\ events' = events \o pre
              /\ err' = err
              /\ target' = r.val
  /\ UNCHANGED <<JobVarsKept, spawned, frames, idx, edits, outputs, probe, output, calls>>

\* upscale_video's ffmpeg, which cannot exit 0 on an input that does not
\* exist, and run()'s tail for upscale_video.
upscale_video_ffmpeg(o) ==
  /\ pc = "upscale_ffmpeg"
  /\ calls' = Append(calls, Call("ffmpeg", "upscale_video", o # "ok"))
  /\ kwargs.video.exists \/ o # "ok"
  /\ spawned' = spawned \o Spawn(o, upscale_video_cmd(encoder, target))
  /\ IF _run_ffmpeg(o) = "none"
     THEN /\ Complete(<<Progress(100)>>)
          /\ output' = [written |-> TRUE, audio |-> FALSE]
     ELSE /\ Throw(_run_ffmpeg(o), <<>>)
          /\ output' = output
  /\ UNCHANGED <<JobVarsKept, frames, idx, edits, outputs, target,
                 probe>>

\* run() in mode upscale_images, up to the first image: an empty batch
\* falls through the loop to run()'s tail.
run_upscale_images ==
  /\ pc = "started" /\ mode = "upscale_images"
  /\ LET pre == <<Log("Starting Task"), Log("Processing batch")>>
     IN  IF Len(kwargs.images) = 0
         THEN Complete(pre)
         ELSE /\ pc' = "image_loop"
              /\ events' = events \o pre
              /\ err' = err
  /\ UNCHANGED <<JobVarsKept, spawned, frames, idx, edits, outputs, target,
                 probe, output, calls>>

\* One iteration of the upscale_images loop: the image at index idx.
upscale_images_step(subdir) ==
  /\ pc = "image_loop"
  /\ LET total == Len(kwargs.images)
         pre == <<Log("Upscaling")>>
         r == upscale_image_batch(kwargs.images[idx + 1], kwargs.quality, subdir)
     IN  IF r.exc # "none"
         THEN Throw(r.exc, pre) /\ UNCHANGED <<idx, outputs>>
         ELSE /\ outputs' = Append(outputs, [index |-> idx + 1, box |-> r.val])
              /\ idx' = idx + 1
              /\ IF idx + 1 = total
                 THEN Complete(pre \o <<Progress(progress_of(idx, total))>>)
                 ELSE /\ events' = events \o pre
                                   \o <<Progress(progress_of(idx, total))>>
                      /\ UNCHANGED <<pc, err>>
  /\ UNCHANGED <<JobVarsKept, spawned, frames, edits, target, probe,
                 output, calls>>

\* run() in mode concat_images, up to concat_images' file reads.
run_concat_images ==
  /\ pc = "started" /\ mode = "concat_images"
  /\ pc' = "concat"
  /\ events' = events \o <<Log("Starting Task"), Log("Merging images")>>
  /\ UNCHANGED <<JobVarsKept, spawned, err, frames, idx, edits, outputs,
                 target, probe, output, calls>>

\* concat_images: PIL opens, resizes, pastes and saves, or raises.
concat_images(ok) ==
  /\ pc = "concat"
  /\ IF ok
     THEN /\ Complete(<<Progress(100)>>)
          /\ output' = [written |-> TRUE, audio |-> FALSE]
     ELSE /\ Throw("ImageError", <<>>)
          /\ output' = output
  /\ UNCHANGED <<JobVarsKept, spawned, frames, idx, edits, outputs,
                 target, probe, calls>>

\* run() with a mode that none of its branches tests for: the if/elif chain
\* has no else, so control falls through to the success tail.
run_other_mode ==
  /\ pc = "started" /\ mode \notin Modes
  /\ Complete(<<Log("Starting Task")>>)
  /\ UNCHANGED <<JobVarsKept, spawned, frames, idx, edits, outputs, target,
                 probe, output, calls>>

\* --------------------------------------------------------------- AI edit
\* run() in mode ai_edit and run_ai_edit up to its first blocking call: the
\* lazy import (only while the global is None), the engine's construction,
\* and the choice of the video or the image path.
run_ai_edit_begin(import_ok) ==
  /\ pc = "started" /\ mode = "ai_edit"
  /\ calls' = Append(calls, Call("capability", "AIImageEditor", ~import_ok))
  /\ aiLoaded \/ import_ok \in BOOLEAN
  /\ ~aiLoaded \/ import_ok
  /\ LET pre == <<Log("Starting Task"), Log("Initializing AI Engine")>>
     IN  IF ~import_ok
         THEN Throw("ImportError", pre) /\ aiLoaded' = aiLoaded
         ELSE /\ aiLoaded' = TRUE
              /\ err' = err
              /\ IF is_video(kwargs.input)
                 THEN /\ pc' = "extract"
                      /\ events' = events \o pre
                           \o <<Log("AI Model Loaded"), Log("Extracting video frames")>>
                 ELSE /\ pc' = "edit_image"
                      /\ events' = events \o pre \o <<Log("AI Model Loaded")>>
  /\ UNCHANGED <<busy, mode, kwargs, encoder, probeLog, tempDir, spawned,
                 frames, idx, edits, outputs, target, probe, output, donor,
                 listing>>

\* extract_frames: the work directory removed if present and created anew,
\* then ffmpeg; its sorted listing holds n frames.  Then run_ai_edit up to
\* the first frame's edit, or with no frame up to frames_to_video's probe.
extract_frames(o, n) ==
  /\ pc = "extract"
  /\ calls' = Append(calls, Call("ffmpeg", "extract_frames", o # "ok"))
  /\ tempDir' = TRUE
  /\ spawned' = spawned \o Spawn(o, extract_frames_cmd)
  /\ IF _run_ffmpeg(o) # "none"
     THEN /\ n = 0
          /\ Throw(_run_ffmpeg(o), <<>>)
          /\ frames' = frames
     ELSE /\ frames' = sorted_frames(n)
          /\ err' = err
          /\ IF n = 0
             THEN /\ pc' = "has_audio"
                  /\ events' = events \o <<Log("Processing frames"),
                                           Log("Reassembling video")>>
             ELSE /\ pc' = "edit_frame"
                  /\ events' = events \o <<Log("Processing frames")>>
  /\ UNCHANGED <<busy, mode, kwargs, encoder, probeLog, aiLoaded, idx, edits,
                 outputs, target, probe, output, donor,
                 listing>>

\* One iteration of the frame loop: edit_image on frame idx + 1, written
\* back over the frame, with steps=10 and no callback.
edit_frame(ok) ==
  /\ pc = "edit_frame"
  /\ calls' = Append(calls, Call("capability", "edit_image", ~ok))
  /\ LET total == Len(frames)
         pre == <<Log("AI Edit: Frame")>>
         call == [src |-> frames[idx + 1], dst |-> frames[idx + 1],
                  steps |-> VideoSteps, callback |-> FALSE]
     IN  /\ edits' = Append(edits, call)
         /\ IF ~ok
            THEN Throw("ModelError", pre) /\ idx' = idx
            ELSE /\ idx' = idx + 1
                 /\ err' = err
                 /\ IF idx + 1 = total
                    THEN /\ pc' = "has_audio"
                         /\ events' = events \o pre
                              \o <<Progress(progress_of(idx, total)),
                                   Log("Reassembling video")>>
                    ELSE /\ pc' = pc
                         /\ events' = events \o pre
                              \o <<Progress(progress_of(idx, total))>>
  /\ UNCHANGED <<busy, mode, kwargs, encoder, probeLog, spawned, tempDir,
                 aiLoaded, frames, outputs, target, probe, output, donor,
                 listing>>

\* frames_to_video's call of has_audio_stream on the audio donor.
frames_to_video_probe(o) ==
  /\ pc = "has_audio"
  /\ calls' = Append(calls, Call("ffprobe", "has_audio_stream",
                                 o.kind # "completed" \/ o.rc # 0))
  /\ donor' = frames_to_video_args(kwargs).audio_source_video
  /\ o \in AudioProbeOutcomes(kwargs.srcAudio)
  /\ spawned' = spawned \o Spawn(o.kind, has_audio_stream_cmd)
  /\ LET r == has_audio_stream(o)
     IN  /\ probe' = Probed(o, r)
         /\ IF r.exc # "none"
            THEN Throw(r.exc, <<>>)
            ELSE /\ pc' = "assemble"
                 /\ UNCHANGED <<events, err>>
  /\ UNCHANGED <<busy, mode, kwargs, encoder, probeLog, tempDir, aiLoaded,
                 frames, idx, edits, outputs, target, output,
                 listing>>

\* frames_to_video's ffmpeg, then run_ai_edit's cleanup and run()'s tail.
\* ffmpeg cannot exit 0 when no frame file matches its input pattern or when
\* it is told to map an audio stream the donor does not have.
frames_to_video(o) ==
  /\ pc = "assemble"
  /\ calls' = Append(calls, Call("ffmpeg", "frames_to_video", o # "ok"))
  /\ LET cmd == frames_to_video_cmd(probe.result, encoder)
     IN  /\ o = "ok" => /\ Len(frames) > 0
                        /\ MapsAudio(cmd) => kwargs.srcAudio
         /\ spawned' = spawned \o Spawn(o, cmd)
         /\ IF _run_ffmpeg(o) = "none"
            THEN /\ output' = [written |-> TRUE, audio |-> MapsAudio(cmd)]
                 /\ tempDir' = FALSE
                 /\ Complete(<<>>)
            ELSE /\ Throw(_run_ffmpeg(o), <<>>)
                 /\ UNCHANGED <<output, tempDir>>
  /\ UNCHANGED <<busy, mode, kwargs, encoder, probeLog, aiLoaded, frames, idx,
                 edits, outputs, target, probe, donor,
                 listing>>

\* The image path: one call of edit_image with its default steps=20 and the
\* worker's callback.  Each action is one step of the pipeline, idx the
\* steps done; the model load and the image read come with the first step,
\* the save of the result with the last.
edit_image(ok) ==
  /\ pc = "edit_image"
  /\ calls' = IF ~ok \/ idx + 1 = ImageSteps
              THEN Append(calls, Call("capability", "edit_image", ~ok))
              ELSE calls
  /\ edits' = IF idx = 0
              THEN Append(edits, [src |-> 0, dst |-> 0, steps |-> ImageSteps,
                                  callback |-> TRUE])
              ELSE edits
  /\ IF ~ok
     THEN Throw("ModelError", <<>>) /\ UNCHANGED <<idx, output>>
     ELSE /\ idx' = idx + 1
          /\ LET cb == <<Progress(progress_of(idx, ImageSteps)),
                         Log("AI Processing: Step")>>
             IN  IF idx + 1 = ImageSteps
                 THEN /\ Complete(cb)
                      /\ output' = [written |-> TRUE, audio |-> FALSE]
                 ELSE /\ events' = events \o cb
                      /\ UNCHANGED <<pc, err, output>>
  /\ UNCHANGED <<busy, mode, kwargs, encoder, probeLog, spawned, tempDir,
                 aiLoaded, frames, outputs, target, probe, donor,
                 listing>>

\* ------------------------------------------------------------------ spec
\* The user presses one of the run buttons, which only enabled tabs offer:
\* the runner collects the inputs and calls start_worker.
UserRuns ==
  /\ ~busy
  /\ \E m \in Modes : \E kw \in JobInputs(m) :
       \E trial \in [1..Len(encoders) -> TrialOutcomes] :
         start_worker(m, kw, trial)

\* A caller of start_worker other than the five runners, with a mode string
\* of its own and an output path.
OtherCaller ==
  /\ ~busy
  /\ \E trial \in [1..Len(encoders) -> TrialOutcomes] :
       start_worker(OtherMode, [NoKwargs EXCEPT !.output = Mp4Path], trial)

\* The worker thread's steps: run() from its start to its finished signal.
Worker ==
  \/ run_create_video
  \/ \E o \in ToolOutcomes : get_audio_duration(o)
  \/ \E o \in ToolOutcomes : generate_video_ffmpeg(o)
  \/ run_upscale_video
  \/ \E o \in ToolOutcomes : upscale_video_ffmpeg(o)
  \/ run_upscale_images
  \/ \E subdir \in BOOLEAN : upscale_images_step(subdir)
  \/ run_concat_images
  \/ \E ok \in BOOLEAN : concat_images(ok)
  \/ \E import_ok \in BOOLEAN : run_ai_edit_begin(import_ok)
  \/ \E o \in ToolOutcomes : \E n \in 0..MaxFrames : extract_frames(o, n)
  \/ \E ok \in BOOLEAN : edit_frame(ok)
  \/ \E o \in AudioProbeOutcomes(kwargs.srcAudio) : frames_to_video_probe(o)
  \/ \E o \in ToolOutcomes : frames_to_video(o)
  \/ \E ok \in BOOLEAN : edit_image(ok)
  \/ run_other_mode

Next == UserRuns \/ OtherCaller \/ on_finished \/ Worker

Spec == Init /\ [][Next]_vars

\* A started thread is scheduled, every external call it makes returns, and
\* the UI thread's event loop delivers the finished signal to on_finished.
FairSpec == Spec /\ WF_vars(Worker) /\ WF_vars(on_finished)

\* ------------------------------------------------- extract_frames' listing
\* The sorted listing on its own, for frame counts the jobs above do not
\* reach: short videos, and videos around the last index that fits the pad.
LongCounts == {10 ^ PadWidth - 1, 10 ^ PadWidth, 10 ^ PadWidth + 1}

LongFrames == {1, 10 ^ (PadWidth - 1), 10 ^ (PadWidth - 1) + 1} \union LongCounts

\* A frame count n with one of its frames k, whose place is still to find.
ListingInputs ==
  {[n |-> n, k |-> k, at |-> 0] : n \in 1..MaxListed, k \in 1..MaxListed}
  \union {[n |-> n, k |-> k, at |-> 0] : n \in LongCounts, k \in LongFrames}

InitListing ==
  /\ busy = FALSE
  /\ pc = "idle"
  /\ mode = "none"
  /\ kwargs = NoKwargs
  /\ encoder = "none"
  /\ probeLog = <<>>
  /\ events = <<>>
  /\ spawned = <<>>
  /\ err = "none"
  /\ tempDir = FALSE
  /\ aiLoaded = FALSE
  /\ frames = <<>>
  /\ idx = 0
  /\ edits = <<>>
  /\ outputs = <<>>
  /\ target = <<>>
  /\ probe = NoProbe
  /\ output = NoOutput
  /\ donor = <<>>
  /\ calls = <<>>
  /\ listing \in {l \in ListingInputs : l.k <= l.n}

\* extract_frames' sorted(...) over the n files: where frame k comes out.
sorted_listing ==
  /\ listing.at = 0
  /\ listing' = [listing EXCEPT !.at = sorted_index(listing.k, listing.n)]
  /\ UNCHANGED <<busy, pc, mode, kwargs, encoder, probeLog, events, spawned,
                 err, tempDir, aiLoaded, frames, idx, edits, outputs, target,
                 probe, output, donor, calls>>

ListingSpec == InitListing /\ [][sorted_listing]_vars

\* ----------------------------------------------------------------- claims
\* The job at hand is an AI edit that took the video path.
VideoEdit == mode = "ai_edit" /\ is_video(kwargs.input)

\* The positions in events of the finished signals.
FinishedAt == {j \in DOMAIN events : events[j].k = "finished"}

\* C1: once a video-mode AI-edit job has delivered its terminal result, the
\* directory temp_frames_ai does not exist, whichever path the job took.
C1_TempDirRemoved == (VideoEdit /\ pc = "done") => ~tempDir

\* What a job's events show of its end: none before run() begins, no
\* finished signal while it runs, and once it is done exactly one, as the
\* last event, carrying success exactly when no operation raised.
C2_Terminal ==
  /\ pc \in {"idle", "started"} => events = <<>>
  /\ pc # "done" => FinishedAt = {}
  /\ pc = "done" => /\ FinishedAt = {Len(events)}
                    /\ events[Len(events)].ok <=> err = "none"

\* C2: every started job comes to emit exactly one finished signal, no
\* progress or log event follows it, and it carries success only if no
\* operation of the job raised (a probe failure that has_audio_stream
\* swallows is not one: frames_to_video returns normally after it).
C2_OneTerminalResult == []C2_Terminal /\ ((pc = "started") ~> (pc = "done"))

\* A job that failed (here: at the edit of its second frame) has emitted
\* progress and log events and then its one finished(false).
C2_Witness ==
  /\ pc = "done" /\ VideoEdit /\ err = "ModelError" /\ Len(edits) = 2
  /\ Cardinality(FinishedAt) = 1
  /\ ~events[Len(events)].ok

\* An operation's required input file is missing.
MissingInput ==
  \/ mode = "create_video" /\ (~kwargs.img.exists \/ ~kwargs.audio)
  \/ mode = "upscale_video" /\ ~kwargs.video.exists

\* C3: an operation whose required input file does not exist spawns no
\* process and fails with InputNotFound.
C3_MissingInputFailsEarly ==
  MissingInput => /\ spawned = <<>>
                  /\ pc = "done" => err = "InputNotFound"

\* C4: when an upscale_images job is done, every image of the batch that
\* can be read has its output written and every image that cannot has been
\* reported (presets that are plain file-name parts, so that an image fails
\* only by being unreadable).
C4_BatchContinues ==
  (mode = "upscale_images" /\ pc = "done" /\ ~HasSeparator(kwargs.quality)) =>
    /\ \A j \in DOMAIN kwargs.images :
         kwargs.images[j].ok => \E k \in DOMAIN outputs : outputs[k].index = j
    /\ Cardinality({j \in DOMAIN events : events[j].text = "ERROR"})
         = Cardinality({j \in DOMAIN kwargs.images : ~kwargs.images[j].ok})

\* C5: the probe ran its trials on a prefix of h264_nvenc, h264_amf,
\* h264_qsv, videotoolbox in that order; every trial but the last was
\* rejected (non-zero exit or tool not found); the encoder is the last
\* trial's candidate if that trial exited cleanly, and otherwise all four
\* were tried and the encoder is libx264.
C5_FirstWorkingEncoder ==
  pc # "idle" =>
    LET n == Len(probeLog)
        order == <<"h264_nvenc", "h264_amf", "h264_qsv", "videotoolbox">>
    IN  /\ n \in 1..4
        /\ \A j \in 1..n : probeLog[j].enc = order[j]
        /\ \A j \in 1..(n - 1) : probeLog[j].outcome \in {"nonzero", "notfound"}
        /\ IF probeLog[n].outcome = "ok"
           THEN encoder = order[n]
           ELSE n = 4 /\ encoder = "libx264"

\* The third candidate won after a non-zero exit and a tool not found.
C5_Witness ==
  /\ pc = "started" /\ encoder = "h264_qsv" /\ Len(probeLog) = 3
  /\ probeLog[1].outcome = "nonzero" /\ probeLog[2].outcome = "notfound"

\* The geometry generate_video resolves for a preset and an orientation.
Resolve(preset, wide) == oriented(_get_resolution(preset).val, wide)

Swap(pair) == <<pair[2], pair[1]>>

\* C6: for every preset the geometry of a non-wide input is the swap of the
\* geometry of a wide input, whose width is at least its height (1080p wide
\* is (1920,1080), 4k not wide is (2160,3840)); and the target a
\* create_video job computed is the one of its image's orientation.
C6_SwapForPortrait ==
  /\ \A p \in PresetInputs :
       /\ Resolve(p, FALSE) = Swap(Resolve(p, TRUE))
       /\ Resolve(p, TRUE)[1] >= Resolve(p, TRUE)[2]
  /\ Resolve(P1080, TRUE) = <<1920, 1080>>
  /\ Resolve(P4k, FALSE) = <<2160, 3840>>
  /\ (mode = "create_video" /\ target # <<>>) =>
       target = IF kwargs.img.size[1] < kwargs.img.size[2]
                THEN Swap(Resolve(kwargs.quality, TRUE))
                ELSE Resolve(kwargs.quality, TRUE)

\* A create_video job on a portrait image with preset 4k got (2160,3840).
C6_Witness ==
  /\ mode = "create_video" /\ kwargs.img = Portrait /\ kwargs.quality = P4k
  /\ target = <<2160, 3840>>

\* The exceptions that can only come from the preset string.
PresetErrors == {"KeyError", "SavePathError"}

\* The lookup returns a pair for every preset, the 1080p pair for one that
\* is no key of the table.
LookupTotal ==
  \A p \in PresetInputs :
    /\ _get_resolution(p).exc = "none"
    /\ Len(_get_resolution(p).val) = 2
    /\ p \notin {P720, P1080, P2k, P4k} => _get_resolution(p).val = <<1920, 1080>>

\* C7 as stated: the lookup never fails, and no job with an unrecognized
\* preset ends by an error that comes from the preset.
C7_NoPresetError ==
  /\ LookupTotal
  /\ (pc = "done" /\ kwargs.quality \notin {P720, P1080, P2k, P4k}) =>
       err \notin PresetErrors

\* C7 as amended: the lookup never fails and no job ends by a KeyError; a
\* video operation never ends by an error that comes from the preset, and
\* targets the 1080p geometry for an unrecognized one; upscale_image_batch,
\* which also writes the preset into the output file name, fails on the
\* preset only when that name reaches into a directory that is not there.
C7_LookupNeverFails ==
  /\ LookupTotal
  /\ err # "KeyError"
  /\ err = "SavePathError" =>
       mode = "upscale_images" /\ HasSeparator(kwargs.quality)
  /\ (mode \in {"create_video", "upscale_video"} /\ target # <<>>
      /\ kwargs.quality \notin {P720, P1080, P2k, P4k}) =>
       target \in {<<1920, 1080>>, <<1080, 1920>>}
  /\ (mode = "upscale_images" /\ kwargs.quality \notin {P720, P1080, P2k, P4k}) =>
       \A k \in DOMAIN outputs : outputs[k].box = <<1920, 1080>>

\* A batch under the unrecognized preset 8k was saved whole, in 1080p boxes.
C7_Witness ==
  /\ mode = "upscale_images" /\ pc = "done" /\ err = "none"
  /\ kwargs.quality = <<"8", "k">>
  /\ Len(outputs) = 2

\* The geometry the preset and the input's own orientation call for.
OwnGeometry(preset, size) ==
  IF size[1] < size[2] THEN Swap(Resolve(preset, TRUE)) ELSE Resolve(preset, TRUE)

\* C8: generate_video, upscale_video and upscale_image_batch each compute
\* the target geometry from the preset and the input's own orientation.
C8_OwnOrientation ==
  /\ (mode = "create_video" /\ target # <<>>) =>
       target = OwnGeometry(kwargs.quality, kwargs.img.size)
  /\ (mode = "upscale_video" /\ target # <<>> /\ kwargs.video.exists) =>
       target = OwnGeometry(kwargs.quality, kwargs.video.size)
  /\ mode = "upscale_images" =>
       \A k \in DOMAIN outputs :
         outputs[k].box =
           OwnGeometry(kwargs.quality, kwargs.images[outputs[k].index].size)

\* The probe printed at least one non-blank character: a codec name.
ReportedStream(out) == \E j \in DOMAIN out : out[j] \notin {" ", "\n", "\r", "\t"}

\* C9: has_audio_stream raises nothing and returns a boolean: false when
\* ffprobe is not found, exits non-zero, prints what does not decode or
\* prints nothing, true only when ffprobe ran and reported a stream; and the
\* job that called it goes on to frames_to_video's ffmpeg.
C9_ProbeNeverPropagates ==
  probe.kind # "none" =>
    /\ probe.exc = "none"
    /\ probe.result \in BOOLEAN
    /\ (probe.kind \in {"notfound", "undecodable"} \/ probe.rc # 0
        \/ probe.out = <<>>) => ~probe.result
    /\ probe.result => probe.kind = "completed" /\ ReportedStream(probe.out)
    /\ pc \in {"assemble", "done"}
    /\ pc = "done" => err \in {"none", "FFmpegError", "ToolNotFound"}
                      /\ (err = "none" => output.written)

\* The probe's ffprobe was not found, and the job went on to succeed.
C9_Witness ==
  /\ probe.kind = "notfound" /\ ~probe.result
  /\ pc = "done" /\ err = "none" /\ output.written

\* The command of the frames_to_video that this job has spawned.
Assembled == {j \in DOMAIN spawned : spawned[j].op = "frames_to_video"}

\* The command has the donor as second input, mapped in as a stream copy,
\* exactly when has is true, and otherwise only the frame sequence.
AudioGated(cmd, has) ==
  IF has
  THEN /\ cmd.inputs = <<"frame_%04d.png", "audio_source_video">>
       /\ cmd.maps = <<"0:v", "1:a">>
       /\ cmd.acodec = "copy"
  ELSE /\ cmd.inputs = <<"frame_%04d.png">>
       /\ cmd.maps = <<>>
       /\ cmd.acodec = ""

\* C10 as stated: the command maps the donor's audio exactly when
\* has_audio_stream returned true, and the reassembled output has an audio
\* stream exactly when the source video has one.
C10_AudioPreserved ==
  /\ \A j \in Assembled : AudioGated(spawned[j], probe.result)
  /\ (VideoEdit /\ output.written) => (output.audio <=> kwargs.srcAudio)

\* C10 as amended: the command maps the donor's audio exactly when
\* has_audio_stream returned true, and the reassembled output has an audio
\* stream exactly when the source video has one and the probe of it ran
\* (ffprobe found, exit 0, decodable output); when the probe failed the
\* output is video-only whatever the source holds.
C10_AudioFollowsProbe ==
  /\ \A j \in Assembled : AudioGated(spawned[j], probe.result)
  /\ (VideoEdit /\ output.written) =>
       /\ output.audio <=> probe.result
       /\ output.audio <=>
            (kwargs.srcAudio /\ probe.kind = "completed" /\ probe.rc = 0)

\* A source with audio was reassembled with its audio mapped in.
C10_Witness ==
  /\ VideoEdit /\ output.written /\ kwargs.srcAudio /\ output.audio
  /\ Len(frames) = 2
  /\ \E j \in Assembled : spawned[j].maps = <<"0:v", "1:a">>

\* The positions in events of the progress signals.
ProgressAt == {j \in DOMAIN events : events[j].k = "progress"}

\* C11: the progress values of a job never decrease and stay within 0..100,
\* and a job that ended in success has emitted progress 100 as its last
\* progress signal, before its finished signal.
C11_ProgressEndsAt100 ==
  /\ \A i, j \in ProgressAt : i < j => events[i].n <= events[j].n
  /\ \A j \in ProgressAt : events[j].n \in 0..100
  /\ (pc = "done" /\ err = "none") =>
       \E j \in ProgressAt :
         /\ events[j].n = 100
         /\ \A i \in ProgressAt : i <= j
         /\ \A f \in FinishedAt : j < f

\* C12: a worker is in flight exactly while the UI is busy, and a worker is
\* started only when none is in flight (so the worker at hand, and with it
\* the work directory temp_frames_ai, is never taken over by a second job
\* before on_finished has handled its finished signal).
C12_OneJobInFlight ==
  /\ [](busy <=> pc # "idle")
  /\ [][pc' = "started" => pc = "idle"]_vars
  /\ [][(pc # "idle" /\ pc' # "idle") =>
          (mode' = mode /\ kwargs' = kwargs /\ encoder' = encoder)]_vars

\* A video AI edit is under way, its work directory in use, the UI busy.
C12_Witness ==
  /\ busy /\ VideoEdit /\ pc = "edit_frame" /\ tempDir /\ Len(edits) = 1

\* The place of a call in run_ai_edit's video path.
StageOf(op) ==
  CASE op = "AIImageEditor" -> 0
    [] op = "extract_frames" -> 1
    [] op = "edit_image" -> 2
    [] op = "has_audio_stream" -> 3
    [] op = "frames_to_video" -> 4
    [] OTHER -> 5

\* The positions in calls of the calls of an operation.
CallsOf(op) == {j \in DOMAIN calls : calls[j].op = op}

\* frames_to_video has been entered.
AssemblyBegun == pc \in {"has_audio", "assemble"} \/ donor # <<>>

\* What the histories of a video AI edit show of its stages: the calls come
\* in the order extract, edits, assembly; the k-th edit is of frame k, written
\* back over it; assembly begins only when every frame has been edited, and
\* with the input video as donor; the work directory is there from the
\* extraction on and is gone only once the output is written.
StagesInOrder ==
  VideoEdit =>
    /\ \A i, j \in DOMAIN calls :
         i < j => StageOf(calls[i].op) <= StageOf(calls[j].op)
    /\ Cardinality(CallsOf("extract_frames")) <= 1
    /\ Cardinality(CallsOf("frames_to_video")) <= 1
    /\ Len(edits) <= Len(frames)
    /\ \A k \in DOMAIN edits : edits[k].src = frames[k] /\ frames[k] = k
    /\ AssemblyBegun =>
         /\ Len(edits) = Len(frames)
         /\ \A j \in CallsOf("edit_image") : ~calls[j].failed
         /\ \A j \in CallsOf("extract_frames") : ~calls[j].failed
    /\ donor # <<>> => donor = kwargs.input
    /\ pc \in {"edit_frame", "has_audio", "assemble"} => tempDir
    /\ (pc = "done" /\ CallsOf("extract_frames") # {} /\ ~tempDir) =>
         /\ output.written
         /\ \E j \in CallsOf("frames_to_video") : ~calls[j].failed

EndsJob(j) ==
  /\ j = Len(calls)
  /\ pc = "done" /\ err # "none"
  /\ events # <<>>
  /\ events[Len(events)].k = "finished" /\ ~events[Len(events)].ok

\* C14 as stated: every failed tool invocation or capability call of a job
\* is the job's last call and ends the job with a failure result.
C14_FirstFailureEnds == \A j \in DOMAIN calls : calls[j].failed => EndsJob(j)

\* C14 as amended: every failed tool invocation or capability call other
\* than has_audio_stream's ffprobe is the job's last call and ends the job
\* with a failure result; a failed ffprobe of has_audio_stream does not
\* raise, is answered by False, and the job goes on to the assembly; and a
\* job that any exception ended is done, with finished(False) as last event.
C14_FailureEndsButProbe ==
  /\ \A j \in DOMAIN calls :
       calls[j].failed =>
         IF calls[j].op = "has_audio_stream"
         THEN /\ probe.exc = "none" /\ ~probe.result
              /\ pc \in {"assemble", "done"}
              /\ j = Len(calls) \/ calls[j + 1].op = "frames_to_video"
         ELSE EndsJob(j)
  /\ err # "none" =>
       /\ pc = "done"
       /\ events[Len(events)].k = "finished" /\ ~events[Len(events)].ok

\* The edit of the second of three frames failed: no third edit, no probe,
\* no assembly, and the job has ended with finished(False).
C14_Witness ==
  /\ VideoEdit /\ pc = "done" /\ err = "ModelError"
  /\ Len(frames) = 3 /\ Len(edits) = 2
  /\ calls[Len(calls)].op = "edit_image" /\ calls[Len(calls)].failed
  /\ CallsOf("has_audio_stream") = {} /\ CallsOf("frames_to_video") = {}
  /\ ~events[Len(events)].ok

\* C15: for every number of extracted frames, the k-th element of the list
\* extract_frames returns is the frame numbered k: frame k comes out of the
\* sort at position k.
C15_ListInFrameOrder == listing.at # 0 => listing.at = listing.k

\* The AI-edit inputs whose ending is a video extension, in any case.
VideoInputs ==
  { <<"a", ".", "m", "p", "4">>, <<"a", ".", "M", "O", "V">>,
    <<"a", ".", "a", "v", "i">> }

\* What an AI-edit job shows of the path it took: the video path (extract,
\* edits with 10 steps written back over the frame, assembly) exactly for an
\* input with a video ending, and else the image path: at most one edit,
\* with the capability's own 20 steps and the progress callback, exactly one
\* once the job has succeeded, and no process spawned.
PathByExtension ==
  mode = "ai_edit" =>
    /\ pc \in {"extract", "edit_frame", "has_audio", "assemble"} =>
         kwargs.input \in VideoInputs
    /\ pc = "edit_image" => kwargs.input \notin VideoInputs
    /\ kwargs.input \in VideoInputs =>
         \A k \in DOMAIN edits :
           /\ edits[k].steps = 10 /\ ~edits[k].callback
           /\ edits[k].dst = edits[k].src /\ edits[k].src = frames[k]
    /\ kwargs.input \notin VideoInputs =>
         /\ Len(edits) <= 1
         /\ \A k \in DOMAIN edits : edits[k].steps = 20 /\ edits[k].callback
         /\ (pc = "done" /\ err = "none") => Len(edits) = 1
         /\ spawned = <<>> /\ frames = <<>>
         /\ CallsOf("extract_frames") = {} /\ CallsOf("frames_to_video") = {}

\* C16: an AI edit takes the video path exactly when its input path ends in
\* a video extension, whatever the case of the letters, and else the image
\* path, which calls the edit once with its native steps and never creates
\* the work directory.
C16_ModeByExtension ==
  /\ []PathByExtension
  /\ [][(mode = "ai_edit" /\ kwargs.input \notin VideoInputs) =>
          tempDir' = tempDir]_vars

\* An input ending in .MOV is on the video path, its first frame edited.
C16_Witness ==
  /\ mode = "ai_edit" /\ kwargs.input = <<"a", ".", "M", "O", "V">>
  /\ pc = "edit_frame" /\ Len(edits) = 1 /\ edits[1].steps = 10

\* C17: the UI and the worker classify the input of an AI edit alike: the
\* worker is on the video path only with the video output the UI offered
\* (ai_result.mp4), and on the image path only with the image output.
C17_SameClassification ==
  mode = "ai_edit" =>
    /\ pc \in {"extract", "edit_frame", "has_audio", "assemble"} =>
         endswith(kwargs.output, <<".", "m", "p", "4">>)
    /\ pc = "edit_image" => endswith(kwargs.output, <<".", "p", "n", "g">>)

\* The UI is busy exactly while there is a worker, and there is a worker of
\* a mode other than upscale_images only with an output path.
BusyWithWorker ==
  /\ busy <=> pc # "idle"
  /\ (pc # "idle" /\ mode # "upscale_images") => kwargs.output # <<>>

OperationInvoked ==
  calls # <<>> \/ spawned # <<>> \/ outputs # <<>> \/ output.written

\* C19: a worker whose mode is none of the five never ends with
\* finished(True) without having invoked a pipeline operation.
C19_SuccessOnlyAfterWork ==
  (pc = "done" /\ mode \notin Modes /\ events[Len(events)].ok) =>
    OperationInvoked

====
